---- MODULE Spec2Model ----
(***************************************************************************)
(* Model of crtsh.py: the certificate-transparency lookup pipeline         *)
(* (main -> search_domain / search_organization -> clean_results).         *)
(* Python strings are sequences of one-character strings; Python values    *)
(* that may come out of json.loads are records [t, s, truthy].             *)
(***************************************************************************)
EXTENDS Integers, Sequences, FiniteSets, TLC

VARIABLES
    pc,        \* position of the running program
    invoked,   \* what was invoked: the script (main) or a search function
    args,      \* argparse namespace: [domain, org], None when a flag is absent
    env,       \* what the outside world answered: [fetch, body, fs]
    prior,     \* the file system as it was when the process started
    files,     \* the file system: the set of [path, content]
    called,    \* the search operations main has called
    printed,   \* kinds of the messages printed so far
    run,       \* what the search operation computed: [exc, results, cleaned, path]
    exit_code, \* process exit status, -1 while running
    data,      \* argument of clean_results
    cleaned,   \* clean_results(data)
    recleaned, \* clean_results(cleaned)
    orig,      \* the candidate as it entered the loop body of clean_results
    afterwild, \* the candidate after the wildcard substitution
    item       \* the candidate being normalised

vars == <<pc, invoked, args, env, prior, files, called, printed, run, exit_code,
          data, cleaned, recleaned, orig, afterwild, item>>

None == "None"

\* ------------------------------------------------------------------ bounds
MaxTokens == 4
MaxCands == 3
MaxRecords == 2

\* -------------------------------------------------------------- characters
UpperLetters == <<"A","B","C","D","E","F","G","H","I","J","K","L","M",
                  "N","O","P","Q","R","S","T","U","V","W","X","Y","Z">>
LowerLetters == <<"a","b","c","d","e","f","g","h","i","j","k","l","m",
                  "n","o","p","q","r","s","t","u","v","w","x","y","z">>
Digits == <<"0","1","2","3","4","5","6","7","8","9">>

Range(seq) == { seq[i] : i \in 1..Len(seq) }
UpperSet == Range(UpperLetters)
LowerSet == Range(LowerLetters)
DigitSet == Range(Digits)
IsUpper(c) == c \in UpperSet
IsLower(c) == c \in LowerSet
LetterSet == UpperSet \cup LowerSet
IsLetter(c) == c \in LetterSet
IsDigit(c) == c \in DigitSet

\* one character outside ASCII that str.lower maps into ASCII: the Kelvin sign,
\* code point 8490, whose lowercase is the letter k
KelvinSign == "U+212A"

Punctuation == {"\t", "\n", "\f", "\r", " ", "%", "*", "+", ",", "-", ".", "/", "@", "\\", "_"}

\* Unicode code point of a character, the key of Python's str comparison
Ord ==
    [c \in UpperSet |-> 64 + CHOOSE i \in 1..26 : UpperLetters[i] = c]
      @@ [c \in LowerSet |-> 96 + CHOOSE i \in 1..26 : LowerLetters[i] = c]
      @@ [c \in DigitSet |-> 47 + CHOOSE i \in 1..10 : Digits[i] = c]
      @@ [c \in Punctuation |->
            CASE c = "\t" -> 9  [] c = "\n" -> 10 [] c = "\f" -> 12
              [] c = "\r" -> 13 [] c = " " -> 32  [] c = "%" -> 37
              [] c = "*" -> 42  [] c = "+" -> 43  [] c = "," -> 44
              [] c = "-" -> 45  [] c = "." -> 46  [] c = "/" -> 47
              [] c = "@" -> 64  [] c = "\\" -> 92 [] c = "_" -> 95]
      @@ (KelvinSign :> 8490)

\* str.lower, character by character
LowerOf == [c \in UpperSet |-> LowerLetters[CHOOSE i \in 1..26 : UpperLetters[i] = c]]
LowerChar(c) ==
    IF c \in UpperSet THEN LowerOf[c] ELSE IF c = KelvinSign THEN "k" ELSE c
Lower(s) == [i \in 1..Len(s) |-> LowerChar(s[i])]

\* characters str.strip removes
IsSpace(c) == c \in {" ", "\t", "\n", "\r", "\f"}

RECURSIVE LStrip(_)
LStrip(s) == IF s # <<>> /\ IsSpace(s[1]) THEN LStrip(Tail(s)) ELSE s
RECURSIVE RStrip(_)
RStrip(s) ==
    IF s # <<>> /\ IsSpace(s[Len(s)]) THEN RStrip(SubSeq(s, 1, Len(s) - 1)) ELSE s
Strip(s) == RStrip(LStrip(s))

\* s < t in Python's str ordering
RECURSIVE StrLess(_, _)
StrLess(s, t) ==
    IF t = <<>> THEN FALSE
    ELSE IF s = <<>> THEN TRUE
    ELSE IF s[1] = t[1] THEN StrLess(Tail(s), Tail(t))
    ELSE Ord[s[1]] < Ord[t[1]]

\* sorted(xs) for a list of strings
RECURSIVE Insert(_, _)
Insert(x, xs) ==
    IF xs = <<>> THEN <<x>>
    ELSE IF StrLess(x, xs[1]) THEN <<x>> \o xs
    ELSE <<xs[1]>> \o Insert(x, Tail(xs))
RECURSIVE sorted(_)
sorted(xs) == IF xs = <<>> THEN <<>> ELSE Insert(xs[1], sorted(Tail(xs)))

\* sep.join(xs)
RECURSIVE Join(_, _)
Join(sep, xs) ==
    IF xs = <<>> THEN <<>>
    ELSE IF Len(xs) = 1 THEN xs[1]
    ELSE xs[1] \o sep \o Join(sep, Tail(xs))

\* sub occurs in s
Contains(s, sub) ==
    \E i \in 1..(Len(s) - Len(sub) + 1) : SubSeq(s, i, i + Len(sub) - 1) = sub

\* ------------------------------------------------- the two substitutions
\* re.sub(r'\*\.', '', s): one left-to-right pass over non-overlapping matches
\* a substitution anchored at the start: re.sub(r'^\*\.', '', s)
RemoveWildcards_LeadingOnly(s) ==
    IF Len(s) >= 2 /\ s[1] = "*" /\ s[2] = "." THEN SubSeq(s, 3, Len(s)) ELSE s

RECURSIVE RemoveWildcards(_)
RemoveWildcards(s) ==
    IF Len(s) < 2 THEN s
    ELSE IF s[1] = "*" /\ s[2] = "." THEN RemoveWildcards(SubSeq(s, 3, Len(s)))
    ELSE <<s[1]>> \o RemoveWildcards(Tail(s))

\* the character classes [A-Za-z0-9._%+-] and [A-Za-z0-9.-]
LocalChars == UpperSet \cup LowerSet \cup DigitSet \cup {".", "_", "%", "+", "-"}
DomainChars == UpperSet \cup LowerSet \cup DigitSet \cup {".", "-"}
IsLocalChar(c) == c \in LocalChars
IsDomainChar(c) == c \in DomainChars

\* last index of the maximal run of local-part / domain / letter characters
\* that starts at i (i - 1 when s[i] is not in the class)
RECURSIVE LocalRunEnd(_, _)
LocalRunEnd(s, i) ==
    IF i <= Len(s) /\ IsLocalChar(s[i]) THEN LocalRunEnd(s, i + 1) ELSE i - 1
RECURSIVE DomainRunEnd(_, _)
DomainRunEnd(s, i) ==
    IF i <= Len(s) /\ IsDomainChar(s[i]) THEN DomainRunEnd(s, i + 1) ELSE i - 1
RECURSIVE LetterRunEnd(_, _)
LetterRunEnd(s, i) ==
    IF i <= Len(s) /\ IsLetter(s[i]) THEN LetterRunEnd(s, i + 1) ELSE i - 1

Max(S) == CHOOSE x \in S : \A y \in S : y <= x
Min2(a, b) == IF a < b THEN a ELSE b

\* the same pattern with a lazy domain part ([A-Za-z0-9.-]+?): first dot wins
EmailMatchEnd_Lazy(s, p) ==
    LET q == LocalRunEnd(s, p) IN
    IF q < p \/ q + 1 > Len(s) THEN 0
    ELSE IF s[q + 1] # "@" THEN 0
    ELSE LET r == DomainRunEnd(s, q + 2)
             dots == {d \in (q + 3)..r :
                        /\ s[d] = "."
                        /\ d + 2 <= Len(s)
                        /\ IsLetter(s[d + 1])
                        /\ IsLetter(s[d + 2])}
         IN IF dots = {} THEN 0
            ELSE LET d == CHOOSE x \in dots : \A y \in dots : x <= y
                 IN Min2(d + 4, LetterRunEnd(s, d + 1))

\* end of the match of [A-Za-z0-9._%+-]+@[A-Za-z0-9.-]+\.[A-Za-z]{2,4}
\* anchored at p, 0 when there is none. The greedy local part is the whole run
\* of local characters; the greedy domain part backtracks to the last dot that
\* two letters follow; the final label takes up to four letters.
EmailMatchEnd(s, p) ==
    LET q == LocalRunEnd(s, p) IN
    IF q < p \/ q + 1 > Len(s) THEN 0
    ELSE IF s[q + 1] # "@" THEN 0
    ELSE LET r == DomainRunEnd(s, q + 2)
             dots == {d \in (q + 3)..r :
                        /\ s[d] = "."
                        /\ d + 2 <= Len(s)
                        /\ IsLetter(s[d + 1])
                        /\ IsLetter(s[d + 2])}
         IN IF dots = {} THEN 0
            ELSE LET d == Max(dots)
                 IN Min2(d + 4, LetterRunEnd(s, d + 1))

\* re.sub(<email pattern>, '', s)
RECURSIVE RemoveEmailsFrom(_, _)
RemoveEmailsFrom(s, p) ==
    IF p > Len(s) THEN <<>>
    ELSE LET e == EmailMatchEnd(s, p)
         IN IF e > 0 THEN RemoveEmailsFrom(s, e + 1)
            ELSE <<s[p]>> \o RemoveEmailsFrom(s, p + 1)
RemoveEmails(s) == RemoveEmailsFrom(s, 1)

\* item.strip().lower()
StripLower(s) == Lower(Strip(s))

\* the statements of the loop body in the wrong order: strip and lowercase first
NormalizeItem_StripFirst(s) == RemoveEmails(RemoveWildcards(StripLower(s)))

\* the three statements of the loop body of clean_results, in order
NormalizeItem(s) == StripLower(RemoveEmails(RemoveWildcards(s)))

\* ------------------------------------------------------------ Python values
PyStr(s) == [t |-> "str", s |-> s, truthy |-> (s # <<>>)]
PyOther(t, truthy) == [t |-> t, s |-> <<>>, truthy |-> truthy]
Absent == [t |-> "absent", s |-> <<>>, truthy |-> FALSE]

\* ------------------------------------------------------------ clean_results
\* the for loop: [exc, cleaned, seen] after the items from index i on
RECURSIVE CleanLoop(_, _, _, _)
CleanLoop(xs, i, acc, seen) ==
    IF i > Len(xs) THEN [exc |-> None, cleaned |-> acc]
    ELSE IF ~xs[i].truthy THEN CleanLoop(xs, i + 1, acc, seen)
    ELSE IF xs[i].t # "str" THEN [exc |-> "TypeError", cleaned |-> acc]
    ELSE LET it == NormalizeItem(xs[i].s)
         IN IF it # <<>> /\ it \notin seen
            THEN CleanLoop(xs, i + 1, Append(acc, it), seen \cup {it})
            ELSE CleanLoop(xs, i + 1, acc, seen)

\* clean_results ending in "return cleaned"
clean_results_Unsorted(xs) ==
    LET r == CleanLoop(xs, 1, <<>>, {})
    IN IF r.exc # None THEN [exc |-> r.exc, value |-> <<>>]
       ELSE [exc |-> None, value |-> r.cleaned]

clean_results(xs) ==
    LET r == CleanLoop(xs, 1, <<>>, {})
    IN IF r.exc # None THEN [exc |-> r.exc, value |-> <<>>]
       ELSE [exc |-> None, value |-> sorted(r.cleaned)]

\* ---------------------------------------------------------------- inputs
\* building blocks of the candidate strings the normaliser is run on
Tokens == { <<"a">>, <<"B">>, <<" ">>, <<"*">>, <<".">>, <<"@">>, <<"*", ".">>,
            <<".", "a", "a">>, <<"a", "@", "a", ".", "a", "a">> }
\* names that differ in letter case, surrounding whitespace and "*." prefixes
NamePrefixes == { <<>>, <<" ">>, <<"*", ".">> }
BaseNames == { <<"a">>, <<"A">>, <<"b">> }
NameSuffixes == { <<>>, <<" ">> }

RECURSIVE Concat(_)
Concat(ss) == IF ss = <<>> THEN <<>> ELSE ss[1] \o Concat(Tail(ss))

\* all strings made of at most n tokens of T
StringsOf(T, n) == { Concat(ts) : ts \in UNION { [1..k -> T] : k \in 0..n } }
\* all lists of at most n elements of S
ListsOf(S, n) == UNION { [1..k -> S] : k \in 0..n }

\* the candidates the specification quotes
ExampleEmail == <<"a", "d", "m", "i", "n", "@", "e", "x", "a", "m", "p", "l", "e", ".", "c", "o", "m", ".", "e", "x", "a", "m", "p", "l", "e", ".", "o", "r", "g">>
ExampleWildcard == <<"*", ".", "*", ".", "e", "x", "a", "m", "p", "l", "e", ".", "c", "o", "m">>

\* an address whose final label ends in the Kelvin sign: no match until lowered
ExampleKelvin == <<"a", "@", "a", ".", "a", KelvinSign>>

Candidates ==
    StringsOf(Tokens, MaxTokens) \cup {ExampleEmail, ExampleWildcard, ExampleKelvin}
Names == { a \o n \o z : a \in NamePrefixes, n \in BaseNames, z \in NameSuffixes }

PyStrs(xs) == [i \in 1..Len(xs) |-> PyStr(xs[i])]

\* =================================================================== pipeline
ExampleDomain == <<"e", "x", "a", "m", "p", "l", "e", ".", "c", "o", "m">>
ExampleOrg == <<"E", "x", "a", "m", "p", "l", "e", ",", " ", "I", "n", "c", ".">>
WwwExample == <<"W", "W", "W", ".", "E", "X", "A", "M", "P", "L", "E", ".", "C", "O", "M">>
FooExample == <<"f", "o", "o", ".", "e", "x", "a", "m", "p", "l", "e", ".", "c", "o", "m">>
TwoNames == <<"a", ".", "e", "x", "a", "m", "p", "l", "e", ".", "c", "o", "m", "\n", "b", ".", "E", "x", "a", "m", "p", "l", "e", ".", "c", "o", "m">>
TwoNamesEscaped == <<"a", ".", "e", "x", "a", "m", "p", "l", "e", ".", "c", "o", "m", "\\", "n", "b", ".", "E", "x", "a", "m", "p", "l", "e", ".", "c", "o", "m">>
OnlyEmail == <<"a", "@", "a", ".", "a", "a">>
OldContent == <<"o", "l", "d">>

KeyCommonName == <<"c", "o", "m", "m", "o", "n", "_", "n", "a", "m", "e">>
KeyNameValue == <<"n", "a", "m", "e", "_", "v", "a", "l", "u", "e">>

\* s.split(sep), sep non-empty
RECURSIVE SplitFrom(_, _, _, _)
SplitFrom(s, sep, i, start) ==
    IF i + Len(sep) - 1 > Len(s) THEN << SubSeq(s, start, Len(s)) >>
    ELSE IF SubSeq(s, i, i + Len(sep) - 1) = sep
         THEN << SubSeq(s, start, i - 1) >> \o SplitFrom(s, sep, i + Len(sep), i + Len(sep))
         ELSE SplitFrom(s, sep, i + 1, start)
Split(s, sep) == SplitFrom(s, sep, 1, 1)

\* the separator of line 69: the Python literal '\\n' is a backslash and an n
BackslashN == <<"\\", "n">>
\* the separator of '\n'.join: one newline character
Newline == <<"\n">>

\* ----------------------------------------------- what json.loads can return
\* values of the fields of a record that are not strings: 5, []
IntValue == PyOther("int", TRUE)
EmptyList == PyOther("list", FALSE)

\* elements of the parsed array: objects, strings, numbers
Obj(cn, nv) == [t |-> "dict", common_name |-> cn, name_value |-> nv, s |-> <<>>]
StrElem(s) == [t |-> "str", common_name |-> Absent, name_value |-> Absent, s |-> s]
IntElem == [t |-> "int", common_name |-> Absent, name_value |-> Absent, s |-> <<>>]
Elements ==
    { Obj(PyStr(WwwExample), PyStr(TwoNames)),
      Obj(PyStr(FooExample), Absent),
      Obj(PyStr(FooExample), IntValue),
      Obj(PyStr(OnlyEmail), Absent),
      Obj(Absent, PyStr(TwoNamesEscaped)),
      Obj(Absent, EmptyList),
      Obj(Absent, Absent),
      StrElem(<<"x">>),
      StrElem(KeyCommonName),
      IntElem }

\* response.text
EmptyBody == [kind |-> "empty", elems |-> <<>>]
InvalidBody == [kind |-> "invalid", elems |-> <<>>]
ScalarBody == [kind |-> "scalar", elems |-> <<>>]
ArrayBody(es) == [kind |-> "array", elems |-> es]
NoBody == [kind |-> "none", elems |-> <<>>]
Bodies == { EmptyBody, InvalidBody, ScalarBody }
              \cup { ArrayBody(es) : es \in ListsOf(Elements, MaxRecords) }

\* requests.get / raise_for_status: what the network did
FetchOutcomes == { "ok", "ConnectionError", "HTTPError", "KeyboardInterrupt" }
\* open(output_file, 'w'): what the file system did
FsOutcomes == { "ok", "FileNotFoundError", "PermissionError" }

\* except Exception: the classes that derive from Exception
ExceptionClasses == { "ConnectionError", "HTTPError", "JSONDecodeError",
                      "TypeError", "FileNotFoundError", "PermissionError" }
\* a handler that names the requests exceptions only
Catches_RequestsOnly(exc) == exc \in { "ConnectionError", "HTTPError" }
Catches(exc) == exc \in ExceptionClasses

\* not x, any(...): Python truth of a value
Truthy(v) == v.truthy

\* ----------------------------------------------------------- extraction
\* key in entry: "has" it, or the TypeError of a non-container
HasKey(entry, key, field) ==
    IF entry.t = "dict" THEN [exc |-> None, has |-> field # Absent]
    ELSE IF entry.t = "str" THEN [exc |-> None, has |-> Contains(entry.s, key)]
    ELSE [exc |-> "TypeError", has |-> FALSE]

\* entry[key] once the key test has passed
GetItem(entry, field) ==
    IF entry.t = "dict" THEN [exc |-> None, value |-> field]
    ELSE [exc |-> "TypeError", value |-> Absent]

\* lines 68-71: the candidates one name_value contributes
NameValueCandidates(v) ==
    IF v.t = "str" THEN PyStrs(Split(v.s, BackslashN)) ELSE <<v>>

\* lines 63-71, the for loop of search_domain from element i on
RECURSIVE ExtractDomain(_, _, _)
ExtractDomain(es, i, results) ==
    IF i > Len(es) THEN [exc |-> None, results |-> results]
    ELSE
      LET e == es[i]
          hc == HasKey(e, KeyCommonName, e.common_name)
      IN IF hc.exc # None THEN [exc |-> hc.exc, results |-> results]
         ELSE
           LET gc == GetItem(e, e.common_name)
           IN IF hc.has /\ gc.exc # None THEN [exc |-> gc.exc, results |-> results]
              ELSE
                LET r1 == IF hc.has THEN Append(results, gc.value) ELSE results
                    hn == HasKey(e, KeyNameValue, e.name_value)
                IN IF hn.exc # None THEN [exc |-> hn.exc, results |-> r1]
                   ELSE
                     LET gn == GetItem(e, e.name_value)
                     IN IF hn.has /\ gn.exc # None
                        THEN [exc |-> gn.exc, results |-> r1]
                        ELSE ExtractDomain(es, i + 1,
                               IF hn.has THEN r1 \o NameValueCandidates(gn.value) ELSE r1)

\* line 110, the list comprehension of search_organization from element i on
RECURSIVE ExtractOrganization(_, _, _)
ExtractOrganization(es, i, results) ==
    IF i > Len(es) THEN [exc |-> None, results |-> results]
    ELSE
      LET e == es[i]
          hc == HasKey(e, KeyCommonName, e.common_name)
      IN IF hc.exc # None THEN [exc |-> hc.exc, results |-> results]
         ELSE
           LET gc == GetItem(e, e.common_name)
           IN IF hc.has /\ gc.exc # None THEN [exc |-> gc.exc, results |-> results]
              ELSE ExtractOrganization(es, i + 1,
                     IF hc.has THEN Append(results, gc.value) ELSE results)

\* ----------------------------------------------------------- output paths
OutputDir == <<"o", "u", "t", "p", "u", "t", "/">>
DomainPrefix == <<"d", "o", "m", "a", "i", "n", ".">>
OrgPrefix == <<"o", "r", "g", ".">>
TxtSuffix == <<".", "t", "x", "t">>

\* f"output/domain.{domain}.txt"
DomainOutputFile(domain) == OutputDir \o DomainPrefix \o domain \o TxtSuffix

\* a sanitiser that replaces the spaces only
SafeOrg_SpacesOnly(org) == [i \in 1..Len(org) |-> IF org[i] = " " THEN "_" ELSE org[i]]
\* re.sub(r'[^a-zA-Z0-9]', '_', org)
SafeOrg(org) ==
    [i \in 1..Len(org) |-> IF IsLetter(org[i]) \/ IsDigit(org[i]) THEN org[i] ELSE "_"]
\* f"org.{safe_org}.txt"
OrgOutputFile(org) == OrgPrefix \o SafeOrg(org) \o TxtSuffix

\* the file system with content written at path
WriteFile(fsys, path, content) ==
    { f \in fsys : f.path # path } \cup { [path |-> path, content |-> content] }

\* ------------------------------------------------------ the search functions
\* what one call of a search function did
Blank(fsys) ==
    [exc |-> None, propagated |-> FALSE, results |-> <<>>, cleaned |-> <<>>,
     path |-> <<>>, wrote |-> FALSE, files |-> fsys, printed |-> <<>>,
     reached_write |-> FALSE]

\* an exception raised inside the try block: lines 88-89 / 128-129 print it when
\* the except clause matches, otherwise it leaves the function
Raised(exc, r) ==
    [r EXCEPT !.exc = exc,
              !.propagated = ~Catches(exc),
              !.printed = IF Catches(exc) THEN <<"error_searching">> ELSE <<>>]

\* lines 75-86 and 113-126: test for emptiness, write, report
PersistCleaned(c, r0, path, e, fsys) ==
    IF c.exc # None THEN Raised(c.exc, r0)
    ELSE IF c.value = <<>> THEN [r0 EXCEPT !.printed = <<"no_valid_results">>]
    ELSE IF e.fs # "ok"
    THEN Raised(e.fs, [r0 EXCEPT !.cleaned = c.value, !.path = path,
                                 !.reached_write = TRUE])
    ELSE [r0 EXCEPT !.cleaned = c.value, !.path = path, !.reached_write = TRUE,
                    !.wrote = TRUE,
                    !.files = WriteFile(fsys, path, Join(Newline, c.value)),
                    !.printed = <<"listing", "total", "saved">>]

\* lines 73-86 and 111-126: clean the candidates, then write and report
Persist(ext, path, e, fsys) ==
    IF ext.exc # None THEN Raised(ext.exc, [Blank(fsys) EXCEPT !.results = ext.results])
    ELSE PersistCleaned(clean_results(ext.results),
                        [Blank(fsys) EXCEPT !.results = ext.results], path, e, fsys)

\* lines 52-59 and 102-109: fetch and parse; exc, or the parsed array
FetchAndParse(e) ==
    IF e.fetch # "ok" THEN [exc |-> e.fetch, empty |-> FALSE, elems |-> <<>>]
    ELSE IF e.body.kind = "empty" THEN [exc |-> None, empty |-> TRUE, elems |-> <<>>]
    ELSE IF e.body.kind = "invalid"
    THEN [exc |-> "JSONDecodeError", empty |-> FALSE, elems |-> <<>>]
    ELSE IF e.body.kind = "scalar"
    THEN [exc |-> "TypeError", empty |-> FALSE, elems |-> <<>>]
    ELSE [exc |-> None, empty |-> FALSE, elems |-> e.body.elems]

\* lines 55-86 of search_domain, f the fetched and parsed response
DomainFetched(domain, f, e, fsys) ==
    IF f.exc # None THEN Raised(f.exc, Blank(fsys))
    ELSE IF f.empty THEN [Blank(fsys) EXCEPT !.printed = <<"no_results">>]
    ELSE Persist(ExtractDomain(f.elems, 1, <<>>), DomainOutputFile(domain.s), e, fsys)

search_domain(domain, e, fsys) ==
    IF ~Truthy(domain) THEN [Blank(fsys) EXCEPT !.printed = <<"error_term_required">>]
    ELSE DomainFetched(domain, FetchAndParse(e), e, fsys)

\* lines 105-126 of search_organization, f the fetched and parsed response
OrganizationFetched(org, f, e, fsys) ==
    IF f.exc # None THEN Raised(f.exc, Blank(fsys))
    ELSE IF f.empty THEN [Blank(fsys) EXCEPT !.printed = <<"no_results">>]
    ELSE Persist(ExtractOrganization(f.elems, 1, <<>>), OrgOutputFile(org.s), e, fsys)

search_organization(org, e, fsys) ==
    IF ~Truthy(org) THEN [Blank(fsys) EXCEPT !.printed = <<"error_term_required">>]
    ELSE OrganizationFetched(org, FetchAndParse(e), e, fsys)

\* lines 140-147 with the organization tested first
Dispatch_OrgFirst(a) ==
    IF ~(Truthy(a.domain) \/ Truthy(a.org)) THEN "help"
    ELSE IF Truthy(a.org) THEN "search_organization"
    ELSE IF Truthy(a.domain) THEN "search_domain"
    ELSE "return"

\* lines 140-147: what main does with the parsed arguments
Dispatch(a) ==
    IF ~(Truthy(a.domain) \/ Truthy(a.org)) THEN "help"
    ELSE IF Truthy(a.domain) THEN "search_domain"
    ELSE IF Truthy(a.org) THEN "search_organization"
    ELSE "return"

\* ------------------------------------------------------------------ state
\* values of -d / -o: flag absent, flag given with an empty value, flag given
PyNone == PyOther("NoneType", FALSE)
DomainValues == { PyNone, PyStr(<<>>), PyStr(ExampleDomain) }
OrgValues == { PyNone, PyStr(<<>>), PyStr(ExampleOrg) }

\* nothing asked of the outside world yet
NoEnv == [fetch |-> "none", body |-> NoBody, fs |-> "unused"]

NoFiles == {}
OldFiles == { [path |-> DomainOutputFile(ExampleDomain), content |-> OldContent],
              [path |-> OrgOutputFile(ExampleOrg), content |-> OldContent] }

\* the variables a specification does not use
PipelineIdle ==
    /\ invoked = None /\ args = [domain |-> PyNone, org |-> PyNone]
    /\ env = NoEnv /\ prior = {} /\ files = {}
    /\ called = {} /\ printed = <<>> /\ run = Blank({}) /\ exit_code = -1
CleanIdle == data = <<>> /\ cleaned = <<>> /\ recleaned = <<>>
NormIdle == orig = <<>> /\ afterwild = <<>> /\ item = <<>>

Init ==
    /\ invoked \in {"main", "search_domain", "search_organization"}
    /\ pc = invoked
    /\ args \in [domain : DomainValues, org : OrgValues]
    /\ invoked = "search_domain" => args.domain # PyNone /\ args.org = PyNone
    /\ invoked = "search_organization" => args.org # PyNone /\ args.domain = PyNone
    /\ env = NoEnv
    /\ prior \in {NoFiles, OldFiles}
    /\ files = prior
    /\ called = {}
    /\ printed = <<>>
    /\ run = Blank(prior)
    /\ exit_code = -1
    /\ CleanIdle /\ NormIdle

\* the search function named which, called with term
CallOf(which, term, e, fsys) ==
    IF which = "search_domain" THEN search_domain(term, e, fsys)
    ELSE search_organization(term, e, fsys)

\* the state after a call that answered e and did r
Returned(which, e, r, banner) ==
    /\ env' = e
    /\ run' = r
    /\ files' = r.files
    /\ printed' = printed \o banner \o r.printed
    /\ called' = called \cup {which}

\* the call reaches open(): the file system answers fs
Opened(which, term, fetch, body, banner) ==
    \E fs \in FsOutcomes :
        Returned(which, [fetch |-> fetch, body |-> body, fs |-> fs],
                 CallOf(which, term, [fetch |-> fetch, body |-> body, fs |-> fs], files),
                 banner)

\* dry is the call as it goes when open() succeeds
Answered(which, term, fetch, body, dry, banner) ==
    IF dry.reached_write THEN Opened(which, term, fetch, body, banner)
    ELSE Returned(which, [fetch |-> fetch, body |-> body, fs |-> "unused"], dry, banner)

\* one call of a search function against every answer of the outside world
Search(which, term, banner) ==
    \E fetch \in FetchOutcomes :
      \E body \in (IF fetch = "ok" /\ Truthy(term) THEN Bodies ELSE {NoBody}) :
        Answered(which, term, fetch, body,
                 CallOf(which, term, [fetch |-> fetch, body |-> body, fs |-> "ok"], files),
                 banner)

\* python crtsh.py with no usable flag: banner, help, return
MainHelp ==
    /\ pc = "main" /\ Dispatch(args) = "help"
    /\ printed' = <<"banner", "help">>
    /\ exit_code' = 0
    /\ pc' = "done"
    /\ UNCHANGED <<invoked, args, env, prior, files, called, run,
                   data, cleaned, recleaned, orig, afterwild, item>>

\* main -> search_domain(args.domain)
MainDomain ==
    /\ pc = "main" /\ Dispatch(args) = "search_domain"
    /\ Search("search_domain", args.domain, <<"banner">>)
    /\ exit_code' = IF run'.propagated THEN 1 ELSE 0
    /\ pc' = "done"
    /\ UNCHANGED <<invoked, args, prior, data, cleaned, recleaned, orig, afterwild, item>>

\* main -> search_organization(args.org)
MainOrganization ==
    /\ pc = "main" /\ Dispatch(args) = "search_organization"
    /\ Search("search_organization", args.org, <<"banner">>)
    /\ exit_code' = IF run'.propagated THEN 1 ELSE 0
    /\ pc' = "done"
    /\ UNCHANGED <<invoked, args, prior, data, cleaned, recleaned, orig, afterwild, item>>

\* search_domain(domain) called as a function
CallSearchDomain ==
    /\ pc = "search_domain"
    /\ Search("search_domain", args.domain, <<>>)
    /\ pc' = "done"
    /\ UNCHANGED <<invoked, args, prior, exit_code,
                   data, cleaned, recleaned, orig, afterwild, item>>

\* search_organization(org) called as a function
CallSearchOrganization ==
    /\ pc = "search_organization"
    /\ Search("search_organization", args.org, <<>>)
    /\ pc' = "done"
    /\ UNCHANGED <<invoked, args, prior, exit_code,
                   data, cleaned, recleaned, orig, afterwild, item>>

Next ==
    \/ MainHelp
    \/ MainDomain
    \/ MainOrganization
    \/ CallSearchDomain
    \/ CallSearchOrganization

Spec == Init /\ [][Next]_vars

\* ============================================ the normaliser on its own
\* ------------------------------- the loop body of clean_results, by statement
InitNorm ==
    /\ pc = "item"
    /\ orig \in Candidates
    /\ item = orig
    /\ afterwild = <<>>
    /\ PipelineIdle /\ CleanIdle

\* if not item: continue
SkipEmpty ==
    /\ pc = "item" /\ item = <<>>
    /\ pc' = "skipped"
    /\ UNCHANGED <<invoked, args, env, prior, files, called, printed, run, exit_code,
                   data, cleaned, recleaned, orig, afterwild, item>>

\* item = re.sub(r'\*\.', '', item)
StepWildcards ==
    /\ pc = "item" /\ item # <<>>
    /\ item' = RemoveWildcards(item)
    /\ afterwild' = item'
    /\ pc' = "wildcards_removed"
    /\ UNCHANGED <<invoked, args, env, prior, files, called, printed, run, exit_code,
                   data, cleaned, recleaned, orig>>

\* item = re.sub(<email pattern>, '', item)
StepEmails ==
    /\ pc = "wildcards_removed"
    /\ item' = RemoveEmails(item)
    /\ pc' = "emails_removed"
    /\ UNCHANGED <<invoked, args, env, prior, files, called, printed, run, exit_code,
                   data, cleaned, recleaned, orig, afterwild>>

\* item = item.strip().lower()
StepStripLower ==
    /\ pc = "emails_removed"
    /\ item' = StripLower(item)
    /\ pc' = "normalized"
    /\ UNCHANGED <<invoked, args, env, prior, files, called, printed, run, exit_code,
                   data, cleaned, recleaned, orig, afterwild>>

NextNorm == SkipEmpty \/ StepWildcards \/ StepEmails \/ StepStripLower
SpecNorm == InitNorm /\ [][NextNorm]_vars

\* --------------------------------------------- clean_results on whole lists
InitClean ==
    /\ pc = "clean"
    /\ data \in ListsOf(Names, MaxCands) \cup { <<c>> : c \in Candidates }
    /\ cleaned = <<>> /\ recleaned = <<>>
    /\ PipelineIdle /\ NormIdle

\* cleaned = clean_results(data), data a list of strings
Clean ==
    /\ pc = "clean"
    /\ cleaned' = clean_results(PyStrs(data)).value
    /\ pc' = "cleaned"
    /\ UNCHANGED <<invoked, args, env, prior, files, called, printed, run, exit_code,
                   data, recleaned, orig, afterwild, item>>

\* the produced NameSet fed back through clean_results
Reclean ==
    /\ pc = "cleaned"
    /\ recleaned' = clean_results(PyStrs(cleaned)).value
    /\ pc' = "recleaned"
    /\ UNCHANGED <<invoked, args, env, prior, files, called, printed, run, exit_code,
                   data, cleaned, orig, afterwild, item>>

NextClean == Clean \/ Reclean
SpecClean == InitClean /\ [][NextClean]_vars

\* ------------------------------------------------------ properties: helpers
Star == <<"*", ".">>
StarStar == <<"*", "*", ".">>

\* s precedes t in lexicographic code-point order
LexLess(s, t) ==
    \E k \in 1..(Len(t)) :
        /\ k <= Len(s) + 1
        /\ \A m \in 1..(k - 1) : s[m] = t[m]
        /\ (k = Len(s) + 1 \/ Ord[s[k]] < Ord[t[k]])

\* number of places where "*." starts in s
Occurrences(s) == Cardinality({i \in 1..(Len(s) - 1) : s[i] = "*" /\ s[i + 1] = "."})

\* e has the shape local@domain.label of the email pattern
IsEmailShaped(e) ==
    \E i \in 1..Len(e), j \in 1..Len(e) :
        /\ i + 2 < j
        /\ \A m \in 1..i : IsLocalChar(e[m])
        /\ e[i + 1] = "@"
        /\ \A m \in (i + 2)..(j - 1) : IsDomainChar(e[m])
        /\ e[j] = "."
        /\ Len(e) - j \in 2..4
        /\ \A m \in (j + 1)..Len(e) : IsLetter(e[m])

Without(s, i, j) == SubSeq(s, 1, i - 1) \o SubSeq(s, j + 1, Len(s))

\* a is b with email-shaped pieces cut out and everything else left in place
RECURSIVE CutsEmails(_, _)
CutsEmails(b, a) ==
    \/ b = a
    \/ /\ Len(a) < Len(b)
       /\ \E i \in 1..Len(b), j \in 1..Len(b) :
            /\ i <= j
            /\ IsEmailShaped(SubSeq(b, i, j))
            /\ CutsEmails(Without(b, i, j), a)

HasEmailShaped(s) ==
    \E i \in 1..Len(s), j \in 1..Len(s) : i <= j /\ IsEmailShaped(SubSeq(s, i, j))

\* ------------------------------------------------------------------- C4
\* C4: for every list of candidate strings the list clean_results returns has
\* no two equal entries, not even up to letter case, surrounding whitespace or
\* "*." prefixes (every entry is already in normal form), and is in strictly
\* ascending lexicographic order.
C4_SortedNoDuplicates ==
    pc \in {"cleaned", "recleaned"} =>
        /\ \A i \in 1..Len(cleaned), j \in 1..Len(cleaned) :
              i # j => Lower(Strip(cleaned[i])) # Lower(Strip(cleaned[j]))
        /\ \A i \in 1..Len(cleaned) : cleaned[i] = Lower(Strip(cleaned[i]))
        /\ \A i \in 1..(Len(cleaned) - 1) : LexLess(cleaned[i], cleaned[i + 1])

\* three candidates, two of which collapse, and the survivors change places
C4_Witness ==
    /\ pc = "cleaned"
    /\ data = << <<"b">>, <<" ", "A">>, <<"*", ".", "a">> >>
    /\ cleaned = << <<"a">>, <<"b">> >>

\* ------------------------------------------------------------------- C5
\* C5 as stated: whenever the candidate contains "*.", the string handed on by
\* the wildcard substitution contains no "*.".
C5_Original ==
    (pc = "wildcards_removed" /\ Contains(orig, Star)) => ~Contains(item, Star)

\* C5 amended: the wildcard substitution deletes every occurrence of "*." that
\* is in the candidate, in one pass (the result is two characters shorter per
\* occurrence); the string handed on contains no "*." unless the candidate
\* contains "**.", where the deletion brings a "*" next to a ".".
C5_SinglePass ==
    (pc = "wildcards_removed" /\ Contains(orig, Star)) =>
        /\ Len(item) = Len(orig) - 2 * Occurrences(orig)
        /\ (~Contains(orig, StarStar) => ~Contains(item, Star))

C5_Witness ==
    /\ pc = "wildcards_removed"
    /\ orig = ExampleWildcard
    /\ item = SubSeq(ExampleWildcard, 5, Len(ExampleWildcard))

\* ------------------------------------------------------------------- C8
\* C8 as stated: a candidate that has text beside an email-shaped substring
\* keeps that text: it still contributes an entry to the NameSet.
C8_Original ==
    (/\ pc = "normalized"
     /\ \E i \in 1..Len(afterwild), j \in 1..Len(afterwild) :
            /\ i <= j
            /\ IsEmailShaped(SubSeq(afterwild, i, j))
            /\ StripLower(Without(afterwild, i, j)) # <<>>)
    => item # <<>>

\* C8 amended: the email substitution cuts out the leftmost matches of the
\* pattern, each taken greedily (longest domain part), and leaves the text
\* outside the matches in place; nothing email-shaped is left. A candidate
\* that is email-shaped as a whole, such as admin@example.com.example.org, is
\* cut out whole and contributes no entry.
C8_GreedyEmailRemoval ==
    pc = "emails_removed" =>
        /\ CutsEmails(afterwild, item)
        /\ ~HasEmailShaped(item)
        /\ (IsEmailShaped(afterwild) => item = <<>>)

C8_Witness ==
    /\ pc = "emails_removed"
    /\ afterwild = ExampleEmail
    /\ item = <<>>

\* ------------------------------------------------------------------- C10
\* C10 as stated: clean_results(clean_results(xs)) = clean_results(xs).
C10_Original == pc = "recleaned" => recleaned = cleaned

\* C10 amended: clean_results(clean_results(xs)) = clean_results(xs) whenever
\* no entry of clean_results(xs) contains "*." or a substring of the shape of
\* the email pattern.
C10_FixedPointWithoutWildcard ==
    (/\ pc = "recleaned"
     /\ \A i \in 1..Len(cleaned) :
            ~Contains(cleaned[i], Star) /\ ~HasEmailShaped(cleaned[i]))
        => recleaned = cleaned

C10_Witness ==
    /\ pc = "recleaned"
    /\ Len(cleaned) = 2
    /\ \E i \in 1..Len(data) : data[i] \notin {cleaned[1], cleaned[2]}
    /\ recleaned = cleaned

\* ------------------------------------------------------ pipeline properties
\* the search term of the call that ran
Term == IF "search_domain" \in called THEN args.domain ELSE args.org
Finished == pc = "done" /\ called # {}

ExpectedDomainPath == <<"o", "u", "t", "p", "u", "t", "/", "d", "o", "m", "a", "i", "n", ".", "e", "x", "a", "m", "p", "l", "e", ".", "c", "o", "m", ".", "t", "x", "t">>
ExpectedOrgPath == <<"o", "r", "g", ".", "E", "x", "a", "m", "p", "l", "e", "_", "_", "I", "n", "c", "_", ".", "t", "x", "t">>
ScenarioNameSet == << <<"a", ".", "e", "x", "a", "m", "p", "l", "e", ".", "c", "o", "m">>,
                      <<"b", ".", "e", "x", "a", "m", "p", "l", "e", ".", "c", "o", "m">>,
                      <<"w", "w", "w", ".", "e", "x", "a", "m", "p", "l", "e", ".", "c", "o", "m">> >>

\* ------------------------------------------------------------------- C1
\* C1: a run of search_domain or search_organization that ends with an empty
\* search term, a fetch failure, a zero-length body, a body that is not valid
\* JSON or not an array of objects, or a candidate list of which no entry
\* survives normalisation leaves the file system as it was.
C1_NoFileOnFailure ==
    (/\ Finished
     /\ \/ ~Truthy(Term)
        \/ env.fetch \in {"ConnectionError", "HTTPError"}
        \/ /\ env.fetch = "ok"
           /\ \/ env.body.kind \in {"empty", "invalid", "scalar"}
              \/ \E i \in 1..Len(env.body.elems) : env.body.elems[i].t # "dict"
              \/ (run.exc = None /\ run.cleaned = <<>>))
    => files = prior

\* ------------------------------------------------------------------- C2
\* C2: in a domain search every name of a newline-separated name_value is a
\* NameSet entry of its own (no entry holds a newline), and the response
\* [{common_name: WWW.EXAMPLE.COM, name_value: a.example.com<newline>b.Example.com}]
\* gives exactly a.example.com, b.example.com, www.example.com.
C2_NameValueSplitOnNewline ==
    (Finished /\ "search_domain" \in called /\ run.exc = None) =>
        /\ \A i \in 1..Len(run.cleaned) : ~Contains(run.cleaned[i], Newline)
        /\ (/\ env.fetch = "ok"
            /\ env.body = ArrayBody(<< Obj(PyStr(WwwExample), PyStr(TwoNames)) >>))
           => run.cleaned = ScenarioNameSet

\* ------------------------------------------------------------------- C3
\* C3: in a domain search over an array of objects whose common_names are
\* strings, one of which survives normalisation, a name_value that is present
\* and not a string raises nothing, and the pipeline goes on to write the
\* output file.
C3_NonStringNameValueHandled ==
    (/\ Finished /\ "search_domain" \in called
     /\ env.fetch = "ok" /\ env.body.kind = "array" /\ env.fs \in {"ok", "unused"}
     /\ \A i \in 1..Len(env.body.elems) :
            /\ env.body.elems[i].t = "dict"
            /\ env.body.elems[i].common_name.t \in {"str", "absent"}
     /\ \E i \in 1..Len(env.body.elems) :
            /\ env.body.elems[i].common_name.t = "str"
            /\ NormalizeItem(env.body.elems[i].common_name.s) # <<>>
     /\ \E i \in 1..Len(env.body.elems) :
            env.body.elems[i].name_value.t \notin {"str", "absent"})
    => (run.exc = None /\ run.wrote)

\* ------------------------------------------------------------------- C6
\* C6 as stated: in main, whenever both -d and -o are given, whatever their
\* values, search_domain runs and search_organization is not called.
C6_Original ==
    (invoked = "main" /\ pc = "done" /\ args.domain # PyNone /\ args.org # PyNone)
        => called = {"search_domain"}

\* C6 amended: in main, whenever both -d and -o are given and the value of -d
\* is not the empty string, search_domain runs and search_organization is not
\* called.
C6_DomainPrecedence ==
    (/\ invoked = "main" /\ pc = "done"
     /\ args.domain # PyNone /\ args.org # PyNone /\ args.domain # PyStr(<<>>))
        => called = {"search_domain"}

C6_Witness ==
    /\ invoked = "main" /\ pc = "done"
    /\ args.domain = PyStr(ExampleDomain) /\ args.org = PyStr(ExampleOrg)
    /\ called = {"search_domain"}

\* ------------------------------------------------------------------- C7
\* C7: a network failure, a non-2xx status, invalid JSON, an unexpected record
\* shape, a missing output directory or an unwritable file inside a search
\* operation is caught there and printed: the operation returns normally and
\* main ends with exit code 0, as it does after the help text and after a run
\* without results.
C7_FailuresCaught ==
    /\ (pc = "done" /\ invoked = "main" /\ called = {}) => exit_code = 0
    /\ Finished =>
        /\ run.exc \in {"ConnectionError", "HTTPError", "JSONDecodeError",
                        "TypeError", "FileNotFoundError", "PermissionError"}
             => /\ ~run.propagated
                /\ printed # <<>> /\ printed[Len(printed)] = "error_searching"
                /\ invoked = "main" => exit_code = 0
        /\ (run.exc = None /\ invoked = "main") => exit_code = 0

C7_Witness ==
    /\ Finished /\ invoked = "main"
    /\ run.exc = "FileNotFoundError"
    /\ ~run.propagated
    /\ exit_code = 0

\* ------------------------------------------------------------------- C9
\* start of entry i in the entries joined by one separator character
RECURSIVE OffsetOf(_, _)
OffsetOf(xs, i) == IF i = 1 THEN 0 ELSE OffsetOf(xs, i - 1) + Len(xs[i - 1]) + 1

\* content is the entries of xs with one newline between neighbours
IsJoined(content, xs) ==
    /\ Len(content) = OffsetOf(xs, Len(xs)) + Len(xs[Len(xs)])
    /\ \A i \in 1..Len(xs) :
          /\ SubSeq(content, OffsetOf(xs, i) + 1, OffsetOf(xs, i) + Len(xs[i])) = xs[i]
          /\ i < Len(xs) => content[OffsetOf(xs, i) + Len(xs[i]) + 1] = "\n"

\* C9: when the fetch succeeds, the body parses, the NameSet is not empty and
\* the file can be written, the search writes exactly one file, whose content
\* is the NameSet entries joined by single newlines, in place of whatever was
\* at that path: output/domain.<domain>.txt for a domain search,
\* org.<org, non-alphanumerics as underscores>.txt for an organization search
\* ('Example, Inc.' with foo.example.com twice: foo.example.com in
\* org.Example__Inc_.txt).
C9_OutputFile ==
    (/\ Finished
     /\ env.fetch = "ok" /\ env.fs = "ok"
     /\ run.exc = None /\ run.cleaned # <<>>)
    => LET path == IF "search_domain" \in called THEN ExpectedDomainPath
                   ELSE ExpectedOrgPath
       IN /\ \E f \in files :
               /\ f.path = path
               /\ IsJoined(f.content, run.cleaned)
               /\ files = { g \in prior : g.path # path } \cup {f}
          /\ (/\ "search_organization" \in called
              /\ env.body = ArrayBody(<< Obj(PyStr(FooExample), Absent),
                                         Obj(PyStr(FooExample), Absent) >>))
             => [path |-> ExpectedOrgPath, content |-> FooExample] \in files

C9_Witness ==
    /\ Finished
    /\ called = {"search_organization"}
    /\ args.org = PyStr(ExampleOrg)
    /\ env.body = ArrayBody(<< Obj(PyStr(FooExample), Absent),
                               Obj(PyStr(FooExample), Absent) >>)
    /\ prior = OldFiles
    /\ files = { [path |-> ExpectedDomainPath, content |-> OldContent],
                 [path |-> ExpectedOrgPath, content |-> FooExample] }

====
